---- MODULE Spec2Model ----
(***************************************************************************)
(* The generation lifecycle of the TTS skill service: the request handlers *)
(* of app/main.py, the polling task process_tts_job, the backend client of *)
(* app/tts.py and the record store of app/database.py.                     *)
(*                                                                         *)
(* Every action is one run of the event loop between two await points:     *)
(* the database calls are synchronous, so they never interleave with       *)
(* another task; the awaits (the summarisation call, the job submission,   *)
(* the poll sleep, the status query, the download) are where tasks         *)
(* interleave.                                                             *)
(***************************************************************************)
EXTENDS Integers, Sequences, FiniteSets, TLC

\* ------------------------------------------------------------------ bounds
MaxRequests == 1
\* The longest text, in runs, that clean_text_for_tts is tried on alone.
MaxRuns == 3

\* ------------------------------------------------------- program constants
MAX_TEXT_LENGTH == 25000
max_attempts == 60

\* ------------------------------------------------------------------ values
\* Python's None, and a key that is missing from a JSON object.
None == "<None>"
Absent == "<absent>"

Ids == 1 .. MaxRequests
Reqs == 1 .. MaxRequests

\* The process_tts_job tasks: the task the handlers schedule for a
\* generation has the generation's number; SecondTask is a further call
\* of process_tts_job, which no handler makes.
SecondTask == MaxRequests + 1
Tasks == Ids \cup {SecondTask}

\* ------------------------------------------------------------------- texts
\* A text is a sequence of runs [c, n]: n >= 1 copies of the character c.
\* " " stands for whitespace, "*" for the asterisk, "\n" for a line break
\* inside the text, any other letter for any other character.
Run(c, n) == [c |-> c, n |-> n]

IsSpace(c) == c \in {" ", "\n"}

RECURSIVE Len_(_)
Len_(t) == IF t = <<>> THEN 0 ELSE Head(t).n + Len_(Tail(t))

RECURSIVE LStrip(_)
LStrip(t) ==
    IF t = <<>> THEN <<>>
    ELSE IF IsSpace(Head(t).c) THEN LStrip(Tail(t)) ELSE t

RECURSIVE RStrip(_)
RStrip(t) ==
    IF t = <<>> THEN <<>>
    ELSE IF IsSpace(t[Len(t)].c) THEN RStrip(SubSeq(t, 1, Len(t) - 1)) ELSE t

\* str.strip()
strip(t) == RStrip(LStrip(t))

\* text[:n]
RECURSIVE Take(_, _)
Take(t, n) ==
    IF n <= 0 \/ t = <<>> THEN <<>>
    ELSE IF Head(t).n <= n
    THEN << Head(t) >> \o Take(Tail(t), n - Head(t).n)
    ELSE << Run(Head(t).c, n) >>

\* text.split('\n')[0]
RECURSIVE FirstLine(_)
FirstLine(t) ==
    IF t = <<>> THEN <<>>
    ELSE IF Head(t).c = "\n" THEN <<>>
    ELSE << Head(t) >> \o FirstLine(Tail(t))

\* t[:keep] + "..." if len(t) > limit else t
Truncated(t, keep, limit) ==
    IF Len_(t) > limit THEN Take(t, keep) \o << Run(".", 3) >> ELSE t

IsAsterisk(r) == r.c = "*"
NotAsterisk(r) == ~IsAsterisk(r)

RECURSIVE clean_text_for_tts_FirstOnly(_)
clean_text_for_tts_FirstOnly(t) ==
    IF t = <<>> THEN <<>>
    ELSE IF IsAsterisk(Head(t))
    THEN (IF Head(t).n = 1 THEN Tail(t)
          ELSE << Run("*", Head(t).n - 1) >> \o Tail(t))
    ELSE << Head(t) >> \o clean_text_for_tts_FirstOnly(Tail(t))

\* re.sub(r'\*', '', text)
clean_text_for_tts(t) == SelectSeq(t, NotAsterisk)

\* The texts of at most MaxRuns runs of one or two characters each.
RunSet == { Run(c, n) : c \in {" ", "a", "*"}, n \in 1 .. 2 }

CleanInputs == UNION { [1 .. k -> RunSet] : k \in 0 .. MaxRuns }

\* The request bodies tried.
Texts ==
    { <<>>,
      << Run(" ", 2) >>,
      << Run(" ", 1), Run("a", 1), Run("*", 1), Run(" ", 1) >>,
      << Run(" ", 1), Run("a", MAX_TEXT_LENGTH), Run(" ", 1) >>,
      << Run("a", MAX_TEXT_LENGTH), Run("*", 1) >> }

\* ------------------------------------------------------------ record store
StoragePath(gen_id) == << gen_id, ".mp3" >>
NoPath == << 0, "" >>
SignedUrl14d == "signed-url-14d"

\* The title and the description the summarisation call writes, and the
\* clock's reading when the record was made.
GeneratedTitle == << Run("T", 10) >>
GeneratedDescription == << Run("D", 20) >>
CreatedAt == "created"

NewRecord_Cleaned(text_content, title, description) ==
    [ title        |-> title,
      description  |-> description,
      text_content |-> clean_text_for_tts(text_content),
      status       |-> "processing",
      created_at   |-> CreatedAt,
      storage_path |-> NoPath,
      file_url     |-> None,
      error        |-> None,
      completed_at |-> None ]

\* create_generation's record: the columns it does not set are null.
NewRecord(text_content, title, description) ==
    [ title        |-> title,
      description  |-> description,
      text_content |-> text_content,
      status       |-> "processing",
      created_at   |-> CreatedAt,
      storage_path |-> NoPath,
      file_url     |-> None,
      error        |-> None,
      completed_at |-> None ]

create_generation_Replace(recs, id, text_content, title, description) ==
    [g \in {id} |-> NewRecord(text_content, title, description)]

create_generation_OtherId(recs, id, text_content, title, description) ==
    [g \in DOMAIN recs \cup {id + 2} |->
        IF g = id + 2 THEN NewRecord(text_content, title, description)
        ELSE recs[g]]

\* insert(record): the row is added under its fresh id.
create_generation(recs, id, text_content, title, description) ==
    [g \in DOMAIN recs \cup {id} |->
        IF g = id THEN NewRecord(text_content, title, description)
        ELSE recs[g]]

\* update(...).eq("id", gen_id): the rows that match are updated; no row
\* matches an id that is not in the table.
update_generation_completed_NoUrl(recs, gen_id, storage_path, file_url) ==
    IF gen_id \in DOMAIN recs
    THEN [recs EXCEPT ![gen_id] =
            [@ EXCEPT !.status = "completed",
                      !.storage_path = storage_path,
                      !.completed_at = "now"]]
    ELSE recs

update_generation_completed_NoTimestamp(recs, gen_id, storage_path, file_url) ==
    IF gen_id \in DOMAIN recs
    THEN [recs EXCEPT ![gen_id] =
            [@ EXCEPT !.status = "completed",
                      !.storage_path = storage_path,
                      !.file_url = file_url]]
    ELSE recs

update_generation_completed(recs, gen_id, storage_path, file_url) ==
    IF gen_id \in DOMAIN recs
    THEN [recs EXCEPT ![gen_id] =
            [@ EXCEPT !.status = "completed",
                      !.storage_path = storage_path,
                      !.file_url = file_url,
                      !.completed_at = "now"]]
    ELSE recs

update_generation_failed_Upsert(recs, gen_id, error) ==
    [g \in DOMAIN recs \cup {gen_id} |->
        IF g # gen_id THEN recs[g]
        ELSE [(IF g \in DOMAIN recs THEN recs[g] ELSE NewRecord(<<>>, <<>>, <<>>)) EXCEPT
                 !.status = "failed",
                 !.error = error,
                 !.completed_at = "now"]]

update_generation_failed_IfProcessing(recs, gen_id, error) ==
    IF gen_id \in DOMAIN recs /\ recs[gen_id].status = "processing"
    THEN [recs EXCEPT ![gen_id] =
            [@ EXCEPT !.status = "failed",
                      !.error = error,
                      !.completed_at = "now"]]
    ELSE recs

update_generation_failed(recs, gen_id, error) ==
    IF gen_id \in DOMAIN recs
    THEN [recs EXCEPT ![gen_id] =
            [@ EXCEPT !.status = "failed",
                      !.error = error,
                      !.completed_at = "now"]]
    ELSE recs

\* ---------------------------------------------------------- speech backend
\* The body of a reply to POST {endpoint}/status/{id}: ok = FALSE is a
\* request that raised (network error, timeout, a body that is not JSON).
Reply(ok, status, output, download_url, error) ==
    [ ok |-> ok, status |-> status, output |-> output,
      download_url |-> download_url, error |-> error ]

BackendErrorText == "backend error text"
DownloadUrl == "https://backend/download"

StatusReplies ==
    { Reply(FALSE, Absent, Absent, Absent, Absent) }
    \cup { Reply(TRUE, s, Absent, Absent, Absent) :
             s \in {Absent, "IN_QUEUE", "IN_PROGRESS"} }
    \cup { Reply(TRUE, "COMPLETED", o, Absent, Absent) : o \in {Absent, None} }
    \cup { Reply(TRUE, "COMPLETED", "dict", u, Absent) :
             u \in {Absent, None, "", DownloadUrl} }
    \cup { Reply(TRUE, s, Absent, Absent, e) :
             s \in {"FAILED", "ERROR"}, e \in {Absent, None, BackendErrorText} }

\* Every shape of a status reply: the statuses the backend documents and a
\* null one, with and without output, download_url and error.
BackendStatuses ==
    { Absent, None, "IN_QUEUE", "IN_PROGRESS", "CANCELLED", "TIMED_OUT",
      "COMPLETED", "FAILED", "ERROR" }

ClientReplies ==
    { Reply(FALSE, Absent, Absent, Absent, Absent) }
    \cup { Reply(TRUE, s, o, u, e) :
             s \in BackendStatuses, o \in {Absent, None, "dict"},
             u \in {Absent, None, "", DownloadUrl},
             e \in {Absent, None, BackendErrorText} }

\* dict.get(key, default): the default only when the key is missing.
Get(value, default) == IF value = Absent THEN default ELSE value

\* bool(x) of an optional string
Truthy(x) == x \notin {Absent, None, ""}

\* check_tts_status: the result dict, or raised = TRUE.
PollRaisedAs(data) == data.status = "COMPLETED" /\ data.output = None

PollRaised(data) == ~data.ok \/ PollRaisedAs(data)

check_tts_status(data) ==
    LET status == Get(data.status, "UNKNOWN") IN
    [ raised |-> PollRaised(data),
      status |-> status,
      download_url |->
          IF status = "COMPLETED"
          THEN (IF data.output = "dict" THEN Get(data.download_url, None) ELSE None)
          ELSE Absent,
      error |->
          IF status \in {"FAILED", "ERROR"}
          THEN Get(data.error, "Unknown error")
          ELSE Absent ]

\* No reply was looked at yet.
NoClient ==
    [ data |-> Reply(FALSE, Absent, Absent, Absent, Absent),
      result |-> [ raised |-> TRUE, status |-> Absent,
                   download_url |-> Absent, error |-> Absent ],
      called |-> FALSE ]

\* What a poll was, for the history of a run.
PollClass(data) ==
    IF ~data.ok THEN "raised"
    ELSE IF data.status = "COMPLETED"
         THEN (IF data.output = None THEN "completed_nulloutput"
               ELSE IF data.output = "dict" /\ Truthy(data.download_url)
                    THEN "completed_url" ELSE "completed_nourl")
    ELSE IF data.status \in {"FAILED", "ERROR"}
         THEN (IF data.error = BackendErrorText THEN "failed_text"
               ELSE "failed_notext")
    ELSE "pending"

\* The history of a run's polls: "pending" when every poll so far returned a
\* status that is not terminal, "raised" when every poll so far raised,
\* "noterm" when both happened, "mixed" once the loop went on after a poll
\* that returned COMPLETED, FAILED or ERROR.
TerminalClasses ==
    {"completed_url", "completed_nourl", "failed_text", "failed_notext"}

ClassBase(l) == IF l = "pending" THEN "pending" ELSE "raised"

Fold(h, l) ==
    IF l \in TerminalClasses \/ h = "mixed" THEN h
    ELSE IF h = "none" \/ h = ClassBase(l) THEN ClassBase(l)
    ELSE "noterm"

\* ------------------------------------------------------------------- state
VARIABLES
    records,    \* the record table: generation id -> row
    blobs,      \* the blob bucket: the storage paths that hold an object
    nextId,     \* the next fresh generation id (uuid4 never repeats)
    jobs,       \* the jobs the backend accepted: [req, text]
    req,        \* the request handlers, one per request
    run,        \* the process_tts_job task of each generation
    view,       \* the response of the read handler or web_delete that ran last
    client,     \* a backend reply and what check_tts_status made of it
    blocking,   \* a call of generate_audio_blocking
    cleaning    \* a text and what clean_text_for_tts made of it

vars == << records, blobs, nextId, jobs, req, run, view, client, blocking,
          cleaning >>

\* Identifiers in response bodies: a generation id, or a backend job id.
GenRef(gen_id) == << "gen", gen_id >>
JobId(r) == << "job", r >>
NoJob == << "job", 0 >>
NoRef == << "", 0 >>

\* The JSON body of a handler's answer; NoBody when it has none of these
\* fields (an error, a redirect).
NoBody == [ job_id |-> NoRef, status |-> None ]

\* request.title: not given (None), or a string.
NoTitle == [ given |-> FALSE, text |-> <<>> ]

RequestTitles ==
    { NoTitle, [ given |-> TRUE, text |-> <<>> ],
      [ given |-> TRUE, text |-> << Run("t", 61) >> ] }

\* What the summarisation call did: ok = FALSE when it raised, otherwise
\* the values of the TITLE: and DESCRIPTION: lines of its answer, empty
\* for a line that is missing.
GroqReply(ok, title, description) ==
    [ ok |-> ok, title |-> title, description |-> description ]

NoGroq == GroqReply(FALSE, <<>>, <<>>)

GroqOk == GroqReply(TRUE, GeneratedTitle, GeneratedDescription)

GroqReplies ==
    { NoGroq }
    \cup { GroqReply(TRUE, t, d) :
             t \in { <<>>, GeneratedTitle, << Run("T", 61) >> },
             d \in { <<>>, GeneratedDescription } }

\* The request bodies tried with them: a short text, one of 61 characters,
\* and one of two lines and more than 150 characters.
TitleTexts ==
    { << Run("a", 2) >>,
      << Run("a", 61) >>,
      << Run("a", 2), Run(" ", 1), Run("\n", 1), Run("a", 150) >> }

\* _fallback_title_description
fallback_title_description(text) ==
    [ title |-> Truncated(strip(FirstLine(text)), 57, 60),
      description |-> Truncated(text, 147, 150) ]

\* _parse_response
parse_response(content, original_text) ==
    LET title == IF content.title = <<>>
                 THEN Truncated(original_text, 57, 60) ELSE content.title
        description == IF content.description = <<>>
                       THEN Truncated(original_text, 147, 150)
                       ELSE content.description IN
    [ title |-> Take(title, 60), description |-> Take(description, 150) ]

generate_title_and_description_Propagates(text, reply) ==
    IF reply.ok
    THEN [ raised |-> FALSE ] @@ parse_response(reply, text)
    ELSE [ raised |-> TRUE ] @@ fallback_title_description(text)

\* generate_title_and_description: what the call raises is caught and the
\* fallback returned.
generate_title_and_description(text, reply) ==
    IF reply.ok
    THEN [ raised |-> FALSE ] @@ parse_response(reply, text)
    ELSE [ raised |-> FALSE ] @@ fallback_title_description(text)

\* auth: the request carried the right bearer token (the right PIN cookie);
\* title: request.title; groq: what the summarisation call did; insert: how
\* create_generation ended, "none" when it was not called;
\* submit: how the handler's submit_tts_job call ended; fault: a store call
\* of the handler raised.
IdleReq ==
    [ pc |-> "idle", kind |-> "none", auth |-> FALSE, raw |-> <<>>,
      title |-> NoTitle, gen |-> 0, response |-> 0, body |-> NoBody,
      groq |-> NoGroq, insert |-> "none",
      submit |-> "none", fault |-> FALSE ]

\* gen, job: the arguments gen_id and runpod_job_id of process_tts_job;
\* starts: how many times the task was scheduled for this generation.
NoRun ==
    [ pc |-> "none", gen |-> 0, attempt |-> 0, job |-> NoJob, polls |-> 0,
      hist |-> "none", last |-> "none", store |-> "none",
      writes |-> 0, applied |-> 0, fault |-> FALSE, noop |-> FALSE,
      starts |-> 0 ]

\* No read handler and no web_delete ran in the last step. auth: the request carried the
\* right bearer token (the right PIN, as query parameter or cookie);
\* shown: the generations whose data the response carries; fresh: what
\* refresh_signed_url returned, Absent when it was not called.
NoView ==
    [ handler |-> "none", id |-> 0, auth |-> FALSE, code |-> 0,
      shown |-> {}, status |-> None,
      play_url |-> NoRef, mp3_url |-> None, file_url |-> None,
      error |-> None, fresh |-> Absent ]

\* clean_text_for_tts was not called. text: the argument of the first
\* call; out: what the last call returned; calls: how many were made, each
\* on the result of the one before.
NoCleaning == [ text |-> <<>>, out |-> <<>>, calls |-> 0 ]

\* generate_audio_blocking was not called. elapsed: the local of that
\* name; polls, sleeps: the status queries and sleeps made so far; last:
\* what the last poll was; why: what the call raised.
NoBlocking ==
    [ pc |-> "none", poll_interval |-> 0, max_wait |-> 0, job |-> NoJob,
      elapsed |-> 0, polls |-> 0, sleeps |-> 0, last |-> "none",
      why |-> "none" ]

Init ==
    /\ records = << >>
    /\ blobs = {}
    /\ nextId = 1
    /\ jobs = {}
    /\ req = [r \in Reqs |-> IdleReq]
    /\ run = [t \in Tasks |-> NoRun]
    /\ view = NoView
    /\ client = NoClient
    /\ blocking = NoBlocking
    /\ cleaning = NoCleaning

\* --------------------------------------------------------- request handlers
Cap(n) == IF n >= 2 THEN 2 ELSE n

\* The outcomes of a store call that is made only in some branches.
Faults(called) == IF called THEN BOOLEAN ELSE {FALSE}

verify_api_key_Open(cred) == TRUE

\* verify_api_key: credentials.credentials != TTS_API_KEY raises 401; cred
\* is whether the bearer token equals the key.
verify_api_key(cred) == cred

TooLong_OffByOne(text) == Len_(text) >= MAX_TEXT_LENGTH

\* len(text) > MAX_TEXT_LENGTH
TooLong(text) == Len_(text) > MAX_TEXT_LENGTH

\* api_generate up to its first await: the bearer check, the strip and the
\* two validations, for a request whose text is one of texts and whose
\* title is one of titles.
api_generate_on(r, texts, titles) ==
    /\ req[r].pc = "idle"
    /\ \E cred \in BOOLEAN, raw \in texts, title \in titles :
         LET text == strip(raw) IN
         req' = [req EXCEPT ![r] =
                   IF ~verify_api_key(cred)
                   THEN [@ EXCEPT !.pc = "done", !.kind = "api", !.raw = raw,
                                  !.title = title,
                                  !.auth = cred, !.response = 401]
                   ELSE IF text = <<>> \/ TooLong(text)
                   THEN [@ EXCEPT !.pc = "done", !.kind = "api", !.raw = raw,
                                  !.title = title,
                                  !.auth = cred, !.response = 400]
                   ELSE [@ EXCEPT !.pc = "title", !.kind = "api", !.raw = raw,
                                  !.title = title,
                                  !.auth = cred]]
    /\ UNCHANGED << records, blobs, nextId, jobs, run >>
    /\ view' = NoView
    /\ UNCHANGED << client, blocking, cleaning >>

\* The requests of the lifecycle model carry no title.
api_generate(r) == api_generate_on(r, Texts, {NoTitle})

check_pin_Open(pin) == TRUE

\* check_pin(cookie_pin): pin is whether the cookie equals PLAYLIST_PIN.
check_pin(pin) == pin

\* web_generate up to its first await: the PIN cookie, the strip and the
\* validation.
web_generate_on(r, texts) ==
    /\ req[r].pc = "idle"
    /\ \E pin \in BOOLEAN, raw \in texts :
         LET text == strip(raw) IN
         req' = [req EXCEPT ![r] =
                   IF ~check_pin(pin) \/ text = <<>> \/ TooLong(text)
                   THEN [@ EXCEPT !.pc = "done", !.kind = "web", !.raw = raw,
                                  !.auth = pin, !.response = 303]
                   ELSE [@ EXCEPT !.pc = "title", !.kind = "web", !.raw = raw,
                                  !.auth = pin]]
    /\ UNCHANGED << records, blobs, nextId, jobs, run >>
    /\ view' = NoView
    /\ UNCHANGED << client, blocking, cleaning >>

web_generate(r) == web_generate_on(r, Texts)

\* if not title: api_generate keeps a request title that is not empty;
\* web_generate has none.
Titled(rq) == rq.kind = "api" /\ rq.title.given /\ rq.title.text # <<>>

\* After the summarisation call, which did one of replies:
\* generate_title_and_description, create_generation, then the handler
\* awaits submit_tts_job. The insert can return no row, or raise.
generate_create_on(r, replies) ==
    /\ req[r].pc = "title"
    /\ \E reply \in replies :
       \E outcome \in {"row", "norow", "raise"} :
         LET text == strip(req[r].raw)
             generated == generate_title_and_description(text, reply)
             title == IF Titled(req[r]) THEN req[r].title.text
                      ELSE generated.title IN
         IF generated.raised
         THEN /\ req' = [req EXCEPT ![r].pc = "done", ![r].groq = reply,
                                    ![r].response = 500]
              /\ UNCHANGED << records, nextId >>
         ELSE IF outcome = "row"
         THEN /\ records' = create_generation(records, nextId, text,
                                              title, generated.description)
              /\ nextId' = nextId + 1
              /\ req' = [req EXCEPT ![r].pc = "submit", ![r].gen = nextId,
                                    ![r].groq = reply, ![r].insert = outcome]
         ELSE /\ req' = [req EXCEPT ![r].pc = "done",
                                    ![r].groq = reply, ![r].insert = outcome,
                                    ![r].fault = (outcome = "raise"),
                                    ![r].response =
                                        IF req[r].kind = "web" /\ outcome = "norow"
                                        THEN 303 ELSE 500]
              /\ UNCHANGED << records, nextId >>
    /\ UNCHANGED << blobs, jobs, run >>
    /\ view' = NoView
    /\ UNCHANGED << client, blocking, cleaning >>

\* In the lifecycle model the summarisation call answers with a title and
\* a description.
generate_create(r) == generate_create_on(r, {GroqOk})

\* After submit_tts_job returned or raised: the task is scheduled, or the
\* record is marked failed. A 200 reply without "id" returns None.
SubmitErrorText == "RunPod API failed"

add_task_NoSleep(rn, gen_id, runpod_job_id) ==
    [NoRun EXCEPT !.pc = "poll", !.gen = gen_id, !.job = runpod_job_id,
                  !.starts = Cap(rn.starts + 1)]

\* background_tasks.add_task(process_tts_job, gen_id, runpod_job_id): the
\* task starts at the first sleep of its loop.
add_task(rn, gen_id, runpod_job_id) ==
    [NoRun EXCEPT !.pc = "sleep", !.gen = gen_id, !.job = runpod_job_id,
                  !.starts = Cap(rn.starts + 1)]

GenerateResponse_BackendId(gen_id, runpod_job_id) ==
    [ job_id |-> runpod_job_id, status |-> "processing" ]

\* GenerateResponse(job_id=gen_id, status="processing")
GenerateResponse(gen_id, runpod_job_id) ==
    [ job_id |-> GenRef(gen_id), status |-> "processing" ]

OnSubmitRaise_NoWrite(recs, gen_id, storeRaises) == recs

\* except Exception as e: update_generation_failed(gen_id, str(e)), which
\* can itself raise.
OnSubmitRaise(recs, gen_id, storeRaises) ==
    IF storeRaises THEN recs
    ELSE update_generation_failed(recs, gen_id, SubmitErrorText)

\* The backend's answers to POST {endpoint}/run: ok = FALSE is a request
\* that raised; id is the body's "id" field.
SubmitReplies ==
    {[ ok |-> FALSE, code |-> 0, id |-> Absent ]}
    \cup {[ ok |-> TRUE, code |-> c, id |-> i ] :
             c \in {200, 500}, i \in {Absent, None, "id"}}

\* submit_tts_job: raises on a status code other than 200, otherwise
\* returns data.get("id"), which is None for a body without the field.
submit_tts_job(reply, r) ==
    IF ~reply.ok \/ reply.code # 200
    THEN [ raised |-> TRUE, id |-> NoJob ]
    ELSE [ raised |-> FALSE,
           id |-> IF Get(reply.id, None) = None THEN NoJob ELSE JobId(r) ]

generate_submit(r) ==
    /\ req[r].pc = "submit"
    /\ \E reply \in SubmitReplies :
       LET submitted == submit_tts_job(reply, r)
           outcome == IF submitted.raised THEN "raise"
                      ELSE IF submitted.id = NoJob THEN "noid" ELSE "id" IN
       \E storeRaises \in Faults(outcome = "raise") :
         LET g == req[r].gen
             text == strip(req[r].raw)
             runpod_job_id == submitted.id IN
         IF outcome \in {"id", "noid"}
         THEN /\ jobs' = jobs \cup {[req |-> r, text |-> clean_text_for_tts(text)]}
              /\ run' = [run EXCEPT ![g] = add_task(@, g, runpod_job_id)]
              /\ req' = [req EXCEPT
                           ![r].pc = "done",
                           ![r].submit = outcome,
                           ![r].response =
                               IF req[r].kind = "api" THEN 200 ELSE 303,
                           ![r].body =
                               IF req[r].kind = "api"
                               THEN GenerateResponse(g, runpod_job_id)
                               ELSE NoBody]
              /\ UNCHANGED records
         ELSE /\ records' = OnSubmitRaise(records, g, storeRaises)
              /\ req' = [req EXCEPT
                           ![r].pc = "done",
                           ![r].submit = "raised",
                           ![r].fault = storeRaises,
                           ![r].response =
                               IF req[r].kind = "api" \/ storeRaises
                               THEN 500 ELSE 303]
              /\ UNCHANGED << jobs, run >>
    /\ UNCHANGED << blobs, nextId >>
    /\ view' = NoView
    /\ UNCHANGED << client, blocking, cleaning >>

delete_generation_KeepsOnBlobError(recs, bl, gen_id, removeRaises) ==
    IF gen_id \notin DOMAIN recs
    THEN [ ret |-> FALSE, recs |-> recs, blobs |-> bl ]
    ELSE IF recs[gen_id].storage_path # NoPath /\ removeRaises
    THEN [ ret |-> FALSE, recs |-> recs, blobs |-> bl ]
    ELSE [ ret |-> TRUE,
           recs |-> [g \in DOMAIN recs \ {gen_id} |-> recs[g]],
           blobs |-> bl \ {recs[gen_id].storage_path} ]

delete_generation_SoftDelete(recs, bl, gen_id, removeRaises) ==
    IF gen_id \notin DOMAIN recs
    THEN [ ret |-> FALSE, recs |-> recs, blobs |-> bl ]
    ELSE [ ret |-> TRUE,
           recs |-> [recs EXCEPT ![gen_id].status = "failed"],
           blobs |-> bl ]

\* delete_generation: False for an id that has no record; otherwise the
\* blob under storage_path is removed (a removal that raises is swallowed),
\* the row is deleted and the result is True.
delete_generation(recs, bl, gen_id, removeRaises) ==
    IF gen_id \notin DOMAIN recs
    THEN [ ret |-> FALSE, recs |-> recs, blobs |-> bl ]
    ELSE [ ret |-> TRUE,
           recs |-> [g \in DOMAIN recs \ {gen_id} |-> recs[g]],
           blobs |-> IF recs[gen_id].storage_path # NoPath /\ ~removeRaises
                     THEN bl \ {recs[gen_id].storage_path}
                     ELSE bl ]

\* web_delete: the PIN cookie, then delete_generation, whose result is not
\* looked at; the answer is the redirect to "/" either way.
web_delete(gen_id) ==
    /\ \E pin \in BOOLEAN :
       \E removeRaises \in Faults(check_pin(pin) /\ gen_id \in DOMAIN records) :
         LET d == delete_generation(records, blobs, gen_id, removeRaises) IN
         /\ IF check_pin(pin)
            THEN records' = d.recs /\ blobs' = d.blobs
            ELSE UNCHANGED << records, blobs >>
         /\ view' = [NoView EXCEPT !.handler = "web_delete", !.id = gen_id,
                                   !.auth = pin, !.code = 303]
    /\ UNCHANGED << nextId, jobs, req, run >>
    /\ UNCHANGED << client, blocking, cleaning >>

PlayUrl(job_id) == << "/play/", job_id >>

StatusResponse_PlayUrlAlways(recs, job_id) ==
    IF job_id \notin DOMAIN recs
    THEN [ code |-> 404, status |-> None, play_url |-> NoRef,
           mp3_url |-> None, error |-> None ]
    ELSE LET gen == recs[job_id] IN
         [ code |-> 200,
           status |-> gen.status,
           play_url |-> PlayUrl(job_id),
           mp3_url |-> IF gen.status = "completed" THEN gen.file_url ELSE None,
           error |-> IF gen.status = "failed" THEN gen.error ELSE None ]

\* The body api_status answers with: it only reads the table.
StatusResponse(recs, job_id) ==
    IF job_id \notin DOMAIN recs
    THEN [ code |-> 404, status |-> None, play_url |-> NoRef,
           mp3_url |-> None, error |-> None ]
    ELSE LET gen == recs[job_id] IN
         [ code |-> 200,
           status |-> gen.status,
           play_url |-> IF gen.status = "completed" THEN PlayUrl(job_id)
                        ELSE NoRef,
           mp3_url |-> IF gen.status = "completed" THEN gen.file_url ELSE None,
           error |-> IF gen.status = "failed" THEN gen.error ELSE None ]

\* api_status: the bearer check, then the answer from the stored record.
api_status(job_id) ==
    /\ \E cred \in BOOLEAN :
         LET resp == StatusResponse(records, job_id) IN
         view' = IF ~verify_api_key(cred)
                 THEN [NoView EXCEPT !.handler = "api_status", !.id = job_id,
                                     !.auth = cred, !.code = 401]
                 ELSE [NoView EXCEPT !.handler = "api_status", !.id = job_id,
                                     !.auth = cred,
                                     !.code = resp.code,
                                     !.shown = IF resp.code = 200
                                               THEN {job_id} ELSE {},
                                     !.status = resp.status,
                                     !.play_url = resp.play_url,
                                     !.mp3_url = resp.mp3_url,
                                     !.error = resp.error]
    /\ UNCHANGED << records, blobs, nextId, jobs, req, run, client, blocking, cleaning >>

\* refresh_signed_url: a fresh one-hour URL, or "" when the call raised or
\* the reply has no "signedURL".
SignedUrl1h == "signed-url-1h"

refresh_signed_url(storage_path, outcome) ==
    IF outcome = "ok" THEN SignedUrl1h ELSE ""

\* play calls refresh_signed_url only for a completed record that has a
\* storage path.
Refreshes(gen) == gen.storage_path # NoPath /\ gen.status = "completed"

PlayerGen_NoFallback(recs, gen_id, outcome) ==
    LET gen == recs[gen_id]
        fresh_url == refresh_signed_url(gen.storage_path, outcome) IN
    IF Refreshes(gen)
    THEN [gen EXCEPT !.file_url = fresh_url]
    ELSE gen

\* The record the player page is rendered from: the fresh URL replaces
\* file_url in the handler's copy only.
PlayerGen(recs, gen_id, outcome) ==
    LET gen == recs[gen_id]
        fresh_url == refresh_signed_url(gen.storage_path, outcome) IN
    IF Refreshes(gen) /\ Truthy(fresh_url)
    THEN [gen EXCEPT !.file_url = fresh_url]
    ELSE gen

\* play: 404 for an unknown id, otherwise the player page. The handler
\* takes no pin parameter and reads no cookie: pin is whether the request
\* carried the right PIN, which nothing looks at.
play(gen_id) ==
    /\ \E pin \in BOOLEAN :
       IF gen_id \notin DOMAIN records
       THEN view' = [NoView EXCEPT !.handler = "play", !.id = gen_id,
                                   !.auth = pin, !.code = 404]
       ELSE \E outcome \in IF Refreshes(records[gen_id])
                           THEN {"ok", "nosignedurl", "raises"} ELSE {"ok"} :
              LET gen == PlayerGen(records, gen_id, outcome) IN
              view' = [NoView EXCEPT
                         !.handler = "play", !.id = gen_id, !.code = 200,
                         !.auth = pin,
                         !.shown = {gen_id},
                         !.status = gen.status,
                         !.file_url = gen.file_url,
                         !.error = gen.error,
                         !.fresh =
                             IF Refreshes(records[gen_id])
                             THEN refresh_signed_url(
                                      records[gen_id].storage_path, outcome)
                             ELSE Absent]
    /\ UNCHANGED << records, blobs, nextId, jobs, req, run, client, blocking, cleaning >>

PinOk_Open(pin, cookie_pin) == TRUE

\* not (not check_pin(pin) and not check_pin(cookie_pin)): pin, cookie_pin
\* are whether the query parameter, the cookie, equal PLAYLIST_PIN.
PinOk(pin, cookie_pin) == pin \/ cookie_pin

\* home: the PIN page, or the playlist of all generations.
home ==
    /\ \E pin \in BOOLEAN, cookie_pin \in BOOLEAN :
         view' = [NoView EXCEPT
                    !.handler = "home", !.code = 200,
                    !.auth = pin \/ cookie_pin,
                    !.shown = IF PinOk(pin, cookie_pin)
                              THEN DOMAIN records ELSE {}]
    /\ UNCHANGED << records, blobs, nextId, jobs, req, run, client, blocking, cleaning >>

\* ------------------------------------------------------------ the poll task
MoreAttempts_OffByOne(rn) == rn.attempt + 1 <= max_attempts

\* for attempt in range(max_attempts): is there another iteration?
MoreAttempts(rn) == rn.attempt + 1 < max_attempts

LastAttempt(rn) == ~MoreAttempts(rn)

Out(rn, recs, bl) == [rn |-> rn, recs |-> recs, blobs |-> bl]

\* A store update that was called: it raised, or it returned (also when no
\* row matched the id).
Called(rn, recs, gen_id, raises) ==
    IF raises
    THEN [rn EXCEPT !.writes = Cap(@ + 1), !.fault = TRUE]
    ELSE [rn EXCEPT !.writes = Cap(@ + 1), !.applied = Cap(@ + 1),
                    !.noop = @ \/ gen_id \notin DOMAIN recs]

Continue_Writes(rn, recs, bl, gen_id, timeoutRaises) ==
    IF MoreAttempts(rn)
    THEN Out([rn EXCEPT !.attempt = @ + 1, !.pc = "sleep"],
             update_generation_failed(recs, gen_id, "Still running"), bl)
    ELSE IF timeoutRaises
    THEN Out([Called(rn, recs, gen_id, TRUE) EXCEPT
                 !.attempt = @ + 1, !.pc = "escaped"], recs, bl)
    ELSE Out([Called(rn, recs, gen_id, FALSE) EXCEPT
                 !.attempt = @ + 1, !.pc = "done"],
             update_generation_failed(recs, gen_id, "Generation timed out"), bl)

\* The end of an iteration that did not return (lines 75 and 103-105): the
\* next attempt, or after the last one the timeout write, which is outside
\* the try block.
Continue(rn, recs, bl, gen_id, timeoutRaises) ==
    IF MoreAttempts(rn)
    THEN Out([rn EXCEPT !.attempt = @ + 1, !.pc = "sleep"], recs, bl)
    ELSE IF timeoutRaises
    THEN Out([Called(rn, recs, gen_id, TRUE) EXCEPT
                 !.attempt = @ + 1, !.pc = "escaped"], recs, bl)
    ELSE Out([Called(rn, recs, gen_id, FALSE) EXCEPT
                 !.attempt = @ + 1, !.pc = "done"],
             update_generation_failed(recs, gen_id, "Generation timed out"), bl)

OnRaise_Fails(rn, recs, bl, gen_id, timeoutRaises) ==
    Out([Called(rn, recs, gen_id, FALSE) EXCEPT !.pc = "done"],
        update_generation_failed(recs, gen_id, "Error checking TTS status"), bl)

OnRaise_Returns(rn, recs, bl, gen_id, timeoutRaises) ==
    Out([rn EXCEPT !.pc = "done"], recs, bl)

\* except Exception (lines 100-101): logged, and the loop goes on.
OnRaise(rn, recs, bl, gen_id, timeoutRaises) ==
    Continue(rn, recs, bl, gen_id, timeoutRaises)

AfterWrite_NoReturn(rn) == [rn EXCEPT !.pc = "sleep", !.attempt = @ + 1]

\* After a terminal write that returned: `return` (lines 92 and 98).
AfterWrite(rn) == [rn EXCEPT !.pc = "done"]

Write_AppliedOnRaise(rn, recs, newRecs, bl, gen_id, writeRaises, timeoutRaises) ==
    IF writeRaises
    THEN OnRaise(Called(rn, recs, gen_id, TRUE), newRecs, bl, gen_id, timeoutRaises)
    ELSE Out(AfterWrite(Called(rn, recs, gen_id, FALSE)), newRecs, bl)

\* A terminal write inside the try block: it returns and the task ends, or
\* it raises and the except clause takes over.
Write(rn, recs, newRecs, bl, gen_id, writeRaises, timeoutRaises) ==
    IF writeRaises
    THEN OnRaise(Called(rn, recs, gen_id, TRUE), recs, bl, gen_id, timeoutRaises)
    ELSE Out(AfterWrite(Called(rn, recs, gen_id, FALSE)), newRecs, bl)

\* await asyncio.sleep(5)
poll_sleep(task) ==
    /\ run[task].pc = "sleep"
    /\ run' = [run EXCEPT ![task].pc = "poll",
                           ![task].last = "none",
                           ![task].store = "none",
                           ![task].hist =
                               IF run[task].last \in TerminalClasses
                               THEN "mixed" ELSE @]
    /\ UNCHANGED << records, blobs, nextId, jobs, req >>
    /\ view' = NoView
    /\ UNCHANGED << client, blocking, cleaning >>

\* The branch of process_tts_job on the result of check_tts_status.
OnResult(rn, recs, bl, gen_id, result, writeRaises, timeoutRaises) ==
    IF result.raised
    THEN OnRaise(rn, recs, bl, gen_id, timeoutRaises)
    ELSE IF result.status = "COMPLETED"
    THEN IF Truthy(result.download_url)
         THEN Out([rn EXCEPT !.pc = "download"], recs, bl)
         ELSE Write(rn, recs,
                    update_generation_failed(recs, gen_id, "No download URL received"),
                    bl, gen_id, writeRaises, timeoutRaises)
    ELSE IF result.status \in {"FAILED", "ERROR"}
    THEN Write(rn, recs,
               update_generation_failed(recs, gen_id, result.error),
               bl, gen_id, writeRaises, timeoutRaises)
    ELSE Continue(rn, recs, bl, gen_id, timeoutRaises)

\* One status query and what follows it up to the next await.
poll_status(task) ==
    /\ run[task].pc = "poll"
    /\ \E data \in StatusReplies :
       \E writeRaises \in Faults(PollClass(data) \in TerminalClasses
                                  /\ PollClass(data) # "completed_url"),
          timeoutRaises \in Faults(LastAttempt(run[task])) :
         LET gen_id == run[task].gen
             rn == [run[task] EXCEPT
                       !.polls = @ + 1,
                       !.hist = Fold(@, PollClass(data)),
                       !.last = PollClass(data)]
             out == OnResult(rn, records, blobs, gen_id, check_tts_status(data),
                             writeRaises, timeoutRaises)
         IN /\ run' = [run EXCEPT ![task] = out.rn]
            /\ records' = out.recs
            /\ blobs' = out.blobs
    /\ UNCHANGED << nextId, jobs, req >>
    /\ view' = NoView
    /\ UNCHANGED << client, blocking, cleaning >>

\* upload_audio_to_storage: the upload can raise, the signed-URL call can
\* raise after the object is stored, and the reply can lack "signedURL".
UploadOutcomes == {"ok", "nosignedurl", "upload_raises", "sign_raises"}

upload_audio_to_storage_FixedPath(bl, gen_id, outcome) ==
    [ raised |-> outcome \in {"upload_raises", "sign_raises"},
      blobs |-> IF outcome = "upload_raises" THEN bl
                ELSE bl \cup {StoragePath(0)},
      storage_path |-> StoragePath(0),
      file_url |-> IF outcome = "ok" THEN SignedUrl14d ELSE "" ]

upload_audio_to_storage_NoStore(bl, gen_id, outcome) ==
    [ raised |-> outcome \in {"upload_raises", "sign_raises"},
      blobs |-> bl,
      storage_path |-> StoragePath(gen_id),
      file_url |-> IF outcome = "ok" THEN SignedUrl14d ELSE "" ]

upload_audio_to_storage(bl, gen_id, outcome) ==
    [ raised |-> outcome \in {"upload_raises", "sign_raises"},
      blobs |-> IF outcome = "upload_raises" THEN bl
                ELSE bl \cup {StoragePath(gen_id)},
      storage_path |-> StoragePath(gen_id),
      file_url |-> IF outcome = "ok" THEN SignedUrl14d ELSE "" ]

\* download_audio returned or raised; then the upload and the completed
\* write, up to the return or the next sleep.
download_audio(task) ==
    /\ run[task].pc = "download"
    /\ \E downloadRaises \in BOOLEAN :
       \E outcome \in IF downloadRaises THEN {"ok"} ELSE UploadOutcomes :
       \E writeRaises \in Faults(~downloadRaises /\ outcome \in {"ok", "nosignedurl"}),
          timeoutRaises \in Faults(LastAttempt(run[task])) :
         LET gen_id == run[task].gen
             up == upload_audio_to_storage(blobs, gen_id, outcome)
             rn == [run[task] EXCEPT
                       !.store = IF downloadRaises \/ up.raised THEN "raised"
                                 ELSE outcome]
             out == IF downloadRaises
                    THEN OnRaise(rn, records, blobs, gen_id, timeoutRaises)
                    ELSE IF up.raised
                    THEN OnRaise(rn, records, up.blobs, gen_id, timeoutRaises)
                    ELSE Write(rn, records,
                               update_generation_completed(records, gen_id,
                                   up.storage_path, up.file_url),
                               up.blobs, gen_id, writeRaises, timeoutRaises)
         IN /\ run' = [run EXCEPT ![task] = out.rn]
            /\ records' = out.recs
            /\ blobs' = out.blobs
    /\ UNCHANGED << nextId, jobs, req >>
    /\ view' = NoView
    /\ UNCHANGED << client, blocking, cleaning >>

\* ----------------------------------------------------------- specification
\* The requests that change the store and the steps of the poll tasks.
Next ==
    \/ \E r \in Reqs : api_generate(r)
    \/ \E r \in Reqs : web_generate(r)
    \/ \E r \in Reqs : generate_create(r)
    \/ \E r \in Reqs : generate_submit(r)
    \/ \E g \in Ids : web_delete(g)
    \/ \E g \in Ids : poll_sleep(g)
    \/ \E g \in Ids : poll_status(g)
    \/ \E g \in Ids : download_audio(g)

Spec == Init /\ [][Next]_vars

\* The same with the read requests, which can arrive in any state.
NextReads ==
    \/ Next
    \/ \E g \in Ids : api_status(g)
    \/ \E g \in Ids : play(g)
    \/ home

SpecReads == Init /\ [][NextReads]_vars

\* process_tts_job called twice for one generation, which is a caller's
\* error: the task the handler scheduled and a second one, both about to
\* make their last two attempts after polls that all returned a status
\* that is not terminal.
RacedText == << Run("a", 1) >>

LateAttempt == max_attempts - 2

LateRun ==
    [add_task(NoRun, 1, JobId(1)) EXCEPT
        !.attempt = LateAttempt, !.polls = LateAttempt, !.hist = "pending"]

InitTwoRuns ==
    /\ records = create_generation(<< >>, 1, RacedText,
                                 GeneratedTitle, GeneratedDescription)
    /\ blobs = {}
    /\ nextId = 2
    /\ jobs = {[req |-> 1, text |-> clean_text_for_tts(RacedText)]}
    /\ req = [r \in Reqs |->
                IF r = 1
                THEN [IdleReq EXCEPT
                        !.pc = "done", !.kind = "api", !.auth = TRUE,
                        !.raw = RacedText, !.gen = 1, !.response = 200,
                        !.body = GenerateResponse(1, JobId(1)),
                        !.submit = "id"]
                ELSE IdleReq]
    /\ run = [t \in Tasks |-> IF t \in {1, SecondTask} THEN LateRun ELSE NoRun]
    /\ view = NoView
    /\ client = NoClient
    /\ blocking = NoBlocking
    /\ cleaning = NoCleaning

NextTwoRuns ==
    \/ \E t \in Tasks : poll_sleep(t)
    \/ \E t \in Tasks : poll_status(t)
    \/ \E t \in Tasks : download_audio(t)

SpecTwoRuns == InitTwoRuns /\ [][NextTwoRuns]_vars

\* check_tts_status on its own: one call on any reply of the backend.
query_status(data) ==
    /\ client' = [ data |-> data, result |-> check_tts_status(data),
                   called |-> TRUE ]
    /\ UNCHANGED << records, blobs, nextId, jobs, req, run, view, blocking, cleaning >>

NextClient == \E data \in ClientReplies : query_status(data)

SpecClient == Init /\ [][NextClient]_vars

\* generate_audio_blocking on its own: one call, with the default
\* poll_interval and max_wait and with others, whole seconds all.
BlockingArgs ==
    { << 5, 300 >>, << 7, 300 >>, << 2, 5 >>, << 3, 3 >>, << 5, 3 >> }

InitBlocking ==
    /\ records = << >>
    /\ blobs = {}
    /\ nextId = 1
    /\ jobs = {}
    /\ req = [r \in Reqs |-> IdleReq]
    /\ run = [t \in Tasks |-> NoRun]
    /\ view = NoView
    /\ client = NoClient
    /\ cleaning = NoCleaning
    /\ \E a \in BlockingArgs :
         blocking = [NoBlocking EXCEPT !.pc = "submit",
                                       !.poll_interval = a[1],
                                       !.max_wait = a[2]]

BlockingFrame ==
    UNCHANGED << records, blobs, nextId, jobs, req, run, view, client,
                 cleaning >>

\* run_id = await submit_tts_job(text): what it raises leaves the function.
blocking_submit ==
    /\ blocking.pc = "submit"
    /\ \E reply \in SubmitReplies :
         LET submitted == submit_tts_job(reply, 1) IN
         blocking' = IF submitted.raised
                     THEN [blocking EXCEPT !.pc = "raised", !.why = "submit"]
                     ELSE [blocking EXCEPT !.pc = "loop", !.job = submitted.id]
    /\ BlockingFrame

Waiting_Inclusive(b) == b.elapsed <= b.max_wait

\* while elapsed < max_wait
Waiting(b) == b.elapsed < b.max_wait

\* The loop test, then await asyncio.sleep(poll_interval) and
\* elapsed += poll_interval; after the loop the timeout is raised.
blocking_sleep ==
    /\ blocking.pc = "loop"
    /\ blocking' = IF Waiting(blocking)
                   THEN [blocking EXCEPT
                           !.pc = "poll",
                           !.sleeps = @ + 1,
                           !.elapsed = @ + blocking.poll_interval]
                   ELSE [blocking EXCEPT !.pc = "raised", !.why = "timeout"]
    /\ BlockingFrame

\* result = await check_tts_status(run_id), outside any try block, and the
\* branch on its status.
blocking_poll ==
    /\ blocking.pc = "poll"
    /\ \E data \in StatusReplies :
         LET result == check_tts_status(data)
             b == [blocking EXCEPT !.polls = @ + 1, !.last = PollClass(data)] IN
         blocking' =
             IF result.raised
             THEN [b EXCEPT !.pc = "raised", !.why = "poll"]
             ELSE IF result.status = "COMPLETED"
             THEN IF Truthy(result.download_url)
                  THEN [b EXCEPT !.pc = "download"]
                  ELSE [b EXCEPT !.pc = "raised", !.why = "nourl"]
             ELSE IF result.status \in {"FAILED", "ERROR"}
             THEN [b EXCEPT !.pc = "raised", !.why = "failed"]
             ELSE [b EXCEPT !.pc = "loop"]
    /\ BlockingFrame

\* return await download_audio(download_url)
blocking_download ==
    /\ blocking.pc = "download"
    /\ \E downloadRaises \in BOOLEAN :
         blocking' = IF downloadRaises
                     THEN [blocking EXCEPT !.pc = "raised", !.why = "download"]
                     ELSE [blocking EXCEPT !.pc = "returned"]
    /\ BlockingFrame

NextBlocking ==
    \/ blocking_submit
    \/ blocking_sleep
    \/ blocking_poll
    \/ blocking_download

SpecBlocking == InitBlocking /\ [][NextBlocking]_vars

\* clean_text_for_tts on its own: applied to a text, then to its result.
InitCleaning ==
    /\ records = << >>
    /\ blobs = {}
    /\ nextId = 1
    /\ jobs = {}
    /\ req = [r \in Reqs |-> IdleReq]
    /\ run = [t \in Tasks |-> NoRun]
    /\ view = NoView
    /\ client = NoClient
    /\ blocking = NoBlocking
    /\ \E t \in CleanInputs : cleaning = [ text |-> t, out |-> t, calls |-> 0 ]

clean_text ==
    /\ cleaning.calls < 2
    /\ cleaning' = [cleaning EXCEPT !.out = clean_text_for_tts(@),
                                    !.calls = @ + 1]
    /\ UNCHANGED << records, blobs, nextId, jobs, req, run, view, client,
                    blocking >>

NextCleaning == clean_text

SpecCleaning == InitCleaning /\ [][NextCleaning]_vars

\* The generate handlers with every request title and every outcome of the
\* summarisation call, up to the scheduling of the task.
NextTitles ==
    \/ \E r \in Reqs : api_generate_on(r, TitleTexts, RequestTitles)
    \/ \E r \in Reqs : web_generate_on(r, TitleTexts)
    \/ \E r \in Reqs : generate_create_on(r, GroqReplies)
    \/ \E r \in Reqs : generate_submit(r)

SpecTitles == Init /\ [][NextTitles]_vars

\* The service started over a table that holds a generation completed
\* earlier, whose task is long over.
SeedId == MaxRequests + 1

SeedText == << Run("a", 2) >>

InitSeeded ==
    /\ records = update_generation_completed(
                     create_generation(<< >>, SeedId, SeedText,
                                       GeneratedTitle, GeneratedDescription),
                     SeedId, StoragePath(SeedId), SignedUrl14d)
    /\ blobs = {StoragePath(SeedId)}
    /\ nextId = 1
    /\ jobs = {}
    /\ req = [r \in Reqs |-> IdleReq]
    /\ run = [t \in Tasks |-> NoRun]
    /\ view = NoView
    /\ client = NoClient
    /\ blocking = NoBlocking
    /\ cleaning = NoCleaning

SpecSeeded == InitSeeded /\ [][Next]_vars

\* ------------------------------------------------------------------ claims
Terminal == {"completed", "failed"}
Running(rn) == rn.pc \in {"sleep", "poll", "download"}
Ended(rn) == rn.pc \in {"done", "escaped"}
Exists(g) == g \in DOMAIN records
\* An id that was given to a record which is no longer in the table.
Deleted(g) == g < nextId /\ g \notin DOMAIN records
Set(x) == x \notin {None, ""}

\* C1: a record starts as 'processing', and once its status is 'completed'
\* or 'failed' no step of any handler or of the poll task changes it: the
\* status changes at most once.
C1_StatusChangesOnce ==
    [][\A g \in DOMAIN records' :
          /\ records'[g].status \in {"processing"} \cup Terminal
          /\ g \notin DOMAIN records => records'[g].status = "processing"
          /\ (g \in DOMAIN records /\ records[g].status \in Terminal)
                => records'[g].status = records[g].status]_vars

C1_Witness ==
    \E g \in DOMAIN records :
        records[g].status = "completed" /\ run[g].pc = "done"

\* C2: every record is completed with storage_path and file_url set, or
\* failed with error set, or processing with storage_path, file_url and
\* error unset.
C2_ExactlyOneShape ==
    \A g \in DOMAIN records :
        LET rec == records[g] IN
        \/ rec.status = "completed" /\ rec.storage_path # NoPath /\ Set(rec.file_url)
        \/ rec.status = "failed" /\ rec.error # None
        \/ /\ rec.status = "processing"
           /\ rec.storage_path = NoPath /\ rec.file_url = None /\ rec.error = None

\* C3: when the polls before the last all returned a status that is not
\* terminal, the last returned COMPLETED with a download URL, and the
\* download, the upload with its signed URL and the update succeeded, the
\* task ended at that poll (poll N+1 after N such polls, N < 60) and the
\* record is completed with its storage path and a non-empty file URL.
C3_CompletedAfterPending ==
    \A g \in Ids :
        LET rn == run[g] IN
        (/\ rn.last = "completed_url" /\ rn.hist \in {"none", "pending"}
         /\ rn.store = "ok" /\ ~rn.fault)
        => /\ rn.pc = "done"
           /\ rn.polls = rn.attempt + 1 /\ rn.polls <= max_attempts
           /\ rn.writes = 1
           /\ Exists(g) => /\ records[g].status = "completed"
                           /\ records[g].storage_path = StoragePath(g)
                           /\ Set(records[g].file_url)

C3_Witness ==
    \E g \in DOMAIN records :
        /\ run[g].pc = "done" /\ run[g].last = "completed_url"
        /\ run[g].hist = "pending" /\ run[g].polls = max_attempts
        /\ records[g].status = "completed"

\* C4: after a poll on which the backend reported COMPLETED without a
\* download reference (and with the store available), the task has ended,
\* no download or upload was made, and the record is failed with error
\* "No download URL received".
C4_NoDownloadUrlFails ==
    \A g \in Ids :
        LET rn == run[g] IN
        (rn.last \in {"completed_nourl", "completed_nulloutput"} /\ ~rn.fault)
        => /\ rn.pc = "done"
           /\ rn.store = "none"
           /\ Exists(g) => /\ records[g].status = "failed"
                           /\ records[g].error = "No download URL received"

\* C5: no run makes a 61st status query; a run that ended without any poll
\* yielding COMPLETED, FAILED or ERROR made exactly 60 queries and then
\* called the timeout write once, which, when the store applied it, left
\* the record failed with error "Generation timed out".
C5_TimeoutAfterBudget ==
    \A g \in Ids :
        LET rn == run[g] IN
        /\ rn.polls <= max_attempts
        /\ (/\ Ended(rn)
            /\ rn.hist \in {"pending", "raised", "noterm"}
            /\ rn.last \in {"pending", "raised", "completed_nulloutput"})
           => /\ rn.polls = max_attempts
              /\ rn.writes = 1
              /\ rn.pc = "escaped" => rn.fault
              /\ (rn.pc = "done" /\ Exists(g))
                    => /\ records[g].status = "failed"
                       /\ records[g].error = "Generation timed out"

C5_Witness ==
    \E g \in DOMAIN records :
        /\ run[g].pc = "done" /\ run[g].hist = "pending"
        /\ run[g].last = "pending" /\ run[g].polls = max_attempts
        /\ records[g].error = "Generation timed out"

\* C6: a poll that raises before the budget is used up leaves the task in
\* its loop, one attempt further, and the record processing; when the polls
\* before the last all raised and the last returned FAILED or ERROR with an
\* error text (and the store applied the update), the record is failed with
\* that text.
C6_PollExceptionIsTransient ==
    \A g \in Ids :
        LET rn == run[g] IN
        /\ (rn.last \in {"raised", "completed_nulloutput"} /\ rn.polls < max_attempts)
           => /\ rn.pc = "sleep"
              /\ rn.attempt = rn.polls
              /\ Exists(g) => records[g].status = "processing"
        /\ (/\ rn.last = "failed_text" /\ rn.hist \in {"none", "raised"}
            /\ ~rn.fault /\ Exists(g))
           => /\ rn.pc = "done"
              /\ rn.polls = rn.attempt + 1 /\ rn.polls <= max_attempts
              /\ records[g].status = "failed"
              /\ records[g].error = BackendErrorText

C6_Witness ==
    \E g \in DOMAIN records :
        /\ run[g].pc = "done" /\ run[g].hist = "raised"
        /\ run[g].last = "failed_text" /\ run[g].polls = 6
        /\ records[g].error = BackendErrorText

\* C7: once a generation is deleted, no record with its id exists again; a
\* step of its poll task leaves the record table as it is, and the task is
\* left by an exception only when the store itself failed.
C7_DeletedStaysDeleted ==
    [][\A g \in Ids :
          Deleted(g)
          => /\ g \notin DOMAIN records'
             /\ run'[g] # run[g] => records' = records
             /\ run'[g].pc = "escaped" => run'[g].fault]_vars

C7_Witness ==
    \E g \in Ids :
        Deleted(g) /\ run[g].pc = "done" /\ run[g].noop

\* C8 as claimed: a run calls a terminal write at most once, and does
\* nothing after that call.
C8_AtMostOneWriteIssued ==
    \A g \in Ids : run[g].writes <= 1 /\ (run[g].writes = 1 => Ended(run[g]))

\* C8 as amended: at most one terminal write of a run returns, and after it
\* the task takes no further step and the record is not written again.
C8_AtMostOneWriteApplied ==
    [][\A g \in Ids :
          /\ run'[g].applied <= 1
          /\ run[g].applied = 1
             => /\ run'[g] = run[g]
                /\ (g \in DOMAIN records /\ g \in DOMAIN records')
                      => records'[g] = records[g]]_vars

C8_Witness ==
    \E g \in Ids :
        run[g].pc = "done" /\ run[g].applied = 1 /\ run[g].writes = 2

\* C9: no exception leaves process_tts_job, and a generation whose handler
\* and task have ended has a terminal status.
C9_EveryFailureEndsFailed ==
    /\ \A g \in Ids :
          /\ run[g].pc # "escaped"
          /\ (Ended(run[g]) /\ Exists(g)) => records[g].status \in Terminal
    /\ \A r \in Reqs :
          (req[r].pc = "done" /\ req[r].gen # 0 /\ Exists(req[r].gen)
             /\ run[req[r].gen].pc = "none")
          => records[req[r].gen].status = "failed"

\* C10: a request whose stripped text is empty or longer than 25,000
\* characters ends in the step that validates it, with 400 (303 from the
\* web form), and that step creates no record, submits no job and starts
\* no task; an authorised request with any other text, one of exactly
\* 25,000 characters included, passes the validation.
Invalid(raw) == strip(raw) = <<>> \/ Len_(strip(raw)) > MAX_TEXT_LENGTH

C10_InvalidTextRejected ==
    [][\A r \in Reqs :
          /\ (req[r].pc = "idle" /\ req'[r].pc # "idle")
             => /\ (Invalid(req'[r].raw) /\ req'[r].auth)
                   => /\ req'[r].pc = "done" /\ req'[r].gen = 0
                      /\ req'[r].response =
                            IF req'[r].kind = "api" THEN 400 ELSE 303
                      /\ UNCHANGED << records, blobs, nextId, jobs, run >>
                /\ (~Invalid(req'[r].raw) /\ req'[r].auth) => req'[r].pc = "title"
          /\ req[r].pc = "done" => req'[r] = req[r]]_vars

C10_Witness ==
    \E r \in Reqs :
        /\ req[r].pc = "done" /\ req[r].kind = "api" /\ req[r].auth
        /\ Len_(strip(req[r].raw)) = MAX_TEXT_LENGTH + 1
        /\ req[r].response = 400 /\ records = << >> /\ jobs = {}

\* C11: when submit_tts_job raised, the handler has returned, no job was
\* accepted and no task was ever scheduled for the generation, api_generate
\* answered 500, and (when the store applied the update and the record was
\* not deleted meanwhile) the record is failed with the submission error.
C11_SubmissionFailureMarksFailed ==
    \A r \in Reqs :
        req[r].submit = "raised"
        => LET g == req[r].gen IN
           /\ req[r].pc = "done"
           /\ run[g].pc = "none" /\ run[g].starts = 0
           /\ \A j \in jobs : j.req # r
           /\ req[r].kind = "api" => req[r].response = 500
           /\ (~req[r].fault /\ Exists(g))
                 => /\ records[g].status = "failed"
                    /\ records[g].error = SubmitErrorText
                    /\ records[g].storage_path = NoPath

C11_Witness ==
    \E r \in Reqs :
        /\ req[r].submit = "raised" /\ req[r].kind = "api" /\ ~req[r].fault
        /\ req[r].response = 500 /\ Exists(req[r].gen)
        /\ records[req[r].gen].status = "failed"

\* C12: the step that creates a generation adds exactly one record, under
\* an id no record had, with the stripped text (not empty, at most 25,000
\* characters) as text_content, status 'processing' and error,
\* storage_path, file_url and completed_at unset; every record that was in
\* the table is unchanged.
C12_CreateInsertsOneProcessingRecord ==
    [][\A r \in Reqs :
          (req[r].pc = "title" /\ req'[r].pc = "submit")
          => LET g == req'[r].gen
                 text == strip(req[r].raw) IN
             /\ text # <<>> /\ Len_(text) <= MAX_TEXT_LENGTH
             /\ g \notin DOMAIN records
             /\ DOMAIN records' = DOMAIN records \cup {g}
             /\ records'[g] = [ title        |-> GeneratedTitle,
                                description  |-> GeneratedDescription,
                                text_content |-> text,
                                status       |-> "processing",
                                created_at   |-> CreatedAt,
                                storage_path |-> NoPath,
                                file_url     |-> None,
                                error        |-> None,
                                completed_at |-> None ]
             /\ \A h \in DOMAIN records : records'[h] = records[h]]_vars

C12_Witness ==
    \E r \in Reqs :
        /\ req[r].pc = "submit"
        /\ DOMAIN records = {SeedId, req[r].gen}
        /\ records[SeedId].status = "completed"
        /\ Len_(records[req[r].gen].text_content) = MAX_TEXT_LENGTH

\* C13: a new generation gets an id that no record has, and its record is
\* in the table when the handler goes on to submit the job; a job is
\* submitted and a task scheduled only by a handler that created its record
\* before, so every job and every task refers to an id that was given to a
\* record, which is still in the table unless it was deleted.
C13_RecordBeforeJob ==
    [][/\ \A r \in Reqs :
             /\ (req[r].pc = "title" /\ req'[r].pc = "submit")
                => /\ req'[r].gen \notin DOMAIN records
                   /\ req'[r].gen \in DOMAIN records'
                   /\ req'[r].gen = nextId /\ nextId' = nextId + 1
                   /\ jobs' = jobs /\ run' = run
             /\ (\E j \in jobs' \ jobs : j.req = r)
                => /\ req[r].pc = "submit"
                   /\ req[r].gen \in 1 .. (nextId - 1)
       /\ \A g \in Ids :
             (run[g].pc = "none" /\ run'[g].pc # "none")
             => /\ g \in 1 .. (nextId - 1)
                /\ \E r \in Reqs : req[r].pc = "submit" /\ req[r].gen = g
       /\ nextId' # nextId
          => \E r \in Reqs : req[r].pc = "title" /\ req'[r].pc = "submit"
       /\ \A g \in DOMAIN records' : g \notin DOMAIN records => g = nextId]_vars

C13_Witness ==
    \E j \in jobs :
        /\ Exists(req[j.req].gen) /\ Exists(SeedId)
        /\ run[req[j.req].gen].pc = "download"
        /\ run[req[j.req].gen].job = JobId(j.req)

\* C14: a task is scheduled for a generation exactly once when
\* submit_tts_job returned and never otherwise, and never a second time;
\* api_generate then answers 200 with job_id the generation id, which is
\* not the backend's job id, and status 'processing'.
C14_ExactlyOneRun ==
    /\ \A g \in Ids :
          /\ run[g].starts <= 1
          /\ run[g].pc # "none" <=> run[g].starts = 1
          /\ run[g].starts = 1
             => \E r \in Reqs : /\ req[r].gen = g /\ req[r].pc = "done"
                                /\ req[r].submit \in {"id", "noid"}
    /\ \A r \in Reqs :
          /\ (req[r].pc = "done" /\ req[r].submit \in {"id", "noid"})
             => /\ run[req[r].gen].starts = 1
                /\ req[r].kind = "api"
                   => /\ req[r].response = 200
                      /\ req[r].body.job_id = GenRef(req[r].gen)
                      /\ req[r].body.job_id # run[req[r].gen].job
                      /\ req[r].body.status = "processing"
          /\ (req[r].submit \notin {"id", "noid"} /\ req[r].gen # 0)
             => run[req[r].gen].starts = 0
          /\ req[r].submit \notin {"id", "noid"} => req[r].body = NoBody

C14_Witness ==
    \E r \in Reqs :
        /\ req[r].pc = "done" /\ req[r].kind = "api" /\ req[r].submit = "id"
        /\ req[r].body.job_id = GenRef(req[r].gen)
        /\ run[req[r].gen].starts = 1 /\ Ended(run[req[r].gen])

StoreUnchanged == UNCHANGED << records, blobs, nextId, jobs, req, run >>

\* C15: api_status with the right credential answers 404 exactly when the
\* table has no record with the id; otherwise 200 with the record's status,
\* play_url and mp3_url only for a completed record, error only for a
\* failed one; the step changes nothing in the store.
C15_StatusAnswersFromRecord ==
    [][(view'.handler = "api_status" /\ view'.auth)
       => /\ StoreUnchanged
          /\ view'.code \in {200, 404}
          /\ view'.code = 404 <=> view'.id \notin DOMAIN records
          /\ view'.code = 404
             => /\ view'.status = None /\ view'.play_url = NoRef
                /\ view'.mp3_url = None /\ view'.error = None
          /\ view'.code = 200
             => /\ view'.status = records[view'.id].status
                /\ view'.play_url # NoRef => view'.status = "completed"
                /\ view'.mp3_url # None => view'.status = "completed"
                /\ view'.error # None => view'.status = "failed"
                /\ view'.status = "completed"
                   => view'.play_url = << "/play/", view'.id >>]_vars

C15_Witness ==
    /\ view.handler = "api_status" /\ view.code = 200
    /\ view.status = "failed" /\ view.error = "Generation timed out"
    /\ view.play_url = NoRef /\ view.mp3_url = None

\* C16: whatever the task of the generation is doing, an answer of
\* api_status has the status, the file URL and the error of the stored
\* record; it says 'completed' only after the task's completed write
\* returned, 'failed' only after a failed write of the task or of the
\* handler returned, and 'processing' while the task is still running.
C16_StatusIsStoredSnapshot ==
    (view.handler = "api_status" /\ view.code = 200)
    => LET g == view.id IN
       /\ Exists(g)
       /\ view.status = records[g].status
       /\ view.status = "completed" => view.mp3_url = records[g].file_url
       /\ view.status = "failed" => view.error = records[g].error
       /\ view.status = "completed"
          => /\ run[g].pc = "done" /\ run[g].applied = 1
             /\ run[g].last = "completed_url"
       /\ view.status = "failed"
          => \/ run[g].pc = "done" /\ run[g].applied = 1
             \/ \E r \in Reqs : /\ req[r].gen = g /\ req[r].pc = "done"
                                /\ req[r].submit = "raised" /\ ~req[r].fault
       /\ (Running(run[g]) \/ (run[g].applied = 0 /\ run[g].pc # "none"))
          => view.status = "processing"

C16_Witness ==
    /\ view.handler = "api_status" /\ view.status = "processing"
    /\ run[view.id].pc = "download" /\ run[view.id].polls = max_attempts

\* C17: an answer that shows the audio URL of a completed generation
\* (mp3_url of api_status, the player page) carries a URL signed during
\* that read, not the one stored at completion.
C17_ReadsUseFreshUrl ==
    /\ (view.handler = "api_status" /\ view.status = "completed")
       => view.mp3_url = SignedUrl1h
    /\ (view.handler = "play" /\ view.status = "completed")
       => view.file_url = SignedUrl1h

\* C18: refresh_signed_url returns a URL or the empty string, whatever the
\* storage call does; when it returned the empty string, play answers 200
\* with the page of the record and its stored file_url; play changes
\* nothing in the store.
C18_RefreshFailureFallsBack ==
    [][view'.handler = "play"
       => /\ StoreUnchanged
          /\ view'.fresh \in {Absent, "", SignedUrl1h}
          /\ view'.fresh = ""
             => /\ view'.code = 200
                /\ view'.id \in DOMAIN records
                /\ view'.status = "completed"
                /\ view'.file_url = records[view'.id].file_url]_vars

C18_Witness ==
    /\ view.handler = "play" /\ view.fresh = "" /\ view.code = 200
    /\ view.file_url = SignedUrl14d
    /\ records[view.id].file_url = SignedUrl14d

\* C19: for every table and bucket the service reaches, delete_generation
\* of an id that has a record returns true and removes that record and no
\* other, whether or not the removal of the blob raised, and of an id
\* without a record returns false and leaves table and bucket as they are;
\* the step that deletes a record removes no other record and no blob but
\* the record's own.
C19_DeleteResult ==
    /\ [](\A g \in Ids, removeRaises \in BOOLEAN :
            LET d == delete_generation(records, blobs, g, removeRaises) IN
            /\ Exists(g)
               => /\ d.ret
                  /\ DOMAIN d.recs = DOMAIN records \ {g}
                  /\ \A h \in DOMAIN d.recs : d.recs[h] = records[h]
                  /\ d.blobs \subseteq blobs
                  /\ blobs \ d.blobs \subseteq {records[g].storage_path}
                  /\ removeRaises => d.blobs = blobs
            /\ ~Exists(g)
               => ~d.ret /\ d.recs = records /\ d.blobs = blobs)
    /\ [][\A g \in Ids :
            (g \in DOMAIN records /\ g \notin DOMAIN records')
            => /\ DOMAIN records' = DOMAIN records \ {g}
               /\ \A h \in DOMAIN records' : records'[h] = records[h]
               /\ blobs' \subseteq blobs
               /\ blobs \ blobs' \subseteq {records[g].storage_path}
               /\ UNCHANGED << nextId, jobs, req, run >>]_vars

\* A completed generation was deleted and its blob is still in the bucket:
\* the removal raised.
C19_Witness ==
    \E g \in Ids :
        /\ Deleted(g) /\ StoragePath(g) \in blobs
        /\ run[g].pc = "done" /\ run[g].last = "completed_url"
        /\ run[g].applied = 1 /\ ~run[g].noop /\ run[g].writes = 1

\* C20: api_generate and api_status answer a request with a wrong bearer
\* token with 401, whatever its text, and that step creates or updates no
\* record, submits no job and schedules no task; the request takes no
\* further step.
C20_BadCredentialIs401 ==
    [][/\ \A r \in Reqs :
             /\ (req[r].pc = "idle" /\ req'[r].kind = "api" /\ ~req'[r].auth)
                => /\ req'[r].pc = "done" /\ req'[r].response = 401
                   /\ req'[r].gen = 0 /\ req'[r].body = NoBody
                   /\ UNCHANGED << records, blobs, nextId, jobs, run >>
             /\ (req[r].kind = "api" /\ ~req[r].auth) => req'[r] = req[r]
       /\ (view'.handler = "api_status" /\ ~view'.auth)
          => /\ view'.code = 401
             /\ view'.status = None /\ view'.mp3_url = None
             /\ view'.play_url = NoRef /\ view'.error = None
             /\ StoreUnchanged]_vars

C20_Witness ==
    /\ view.handler = "api_status" /\ ~view.auth /\ view.code = 401
    /\ \E r \in Reqs :
          /\ req[r].kind = "api" /\ ~req[r].auth /\ Invalid(req[r].raw)
          /\ req[r].pc = "done" /\ req[r].response = 401

\* C21: the status check_tts_status returns is one of QUEUED, RUNNING,
\* COMPLETED, FAILED, ERROR, UNKNOWN whatever the backend replied; the
\* result has download_url only with COMPLETED and error only with FAILED
\* or ERROR.
NormalStatuses ==
    {"QUEUED", "RUNNING", "COMPLETED", "FAILED", "ERROR", "UNKNOWN"}

C21_StatusIsNormalized ==
    (client.called /\ ~client.result.raised)
    => /\ client.result.status \in NormalStatuses
       /\ client.result.download_url # Absent
          => client.result.status = "COMPLETED"
       /\ client.result.error # Absent
          => client.result.status \in {"FAILED", "ERROR"}

\* C22 as claimed: the status of a record is 'processing', 'completed' or
\* 'failed', and the status of an existing record changes only in a step
\* of its process_tts_job task.
C22_OnlyControllerWritesStatus ==
    [][\A g \in DOMAIN records' :
          /\ records'[g].status \in {"processing", "completed", "failed"}
          /\ (g \in DOMAIN records /\ records'[g].status # records[g].status)
             => run'[g] # run[g]]_vars

\* C22 as amended: the status is one of the three, and the status of an
\* existing record changes only in a step of its task, or in the step of
\* the generate handler that created it in which submit_tts_job raised
\* (to 'failed', no task having been scheduled); api_status, play and
\* web_delete change the status of no record.
C22_StatusWriters ==
    [][\A g \in DOMAIN records' :
          /\ records'[g].status \in {"processing", "completed", "failed"}
          /\ (g \in DOMAIN records /\ records'[g].status # records[g].status)
             => \/ run'[g] # run[g] /\ req' = req /\ view' = NoView
                \/ /\ run' = run /\ run[g].pc = "none"
                   /\ records[g].status = "processing"
                   /\ records'[g].status = "failed"
                   /\ view' = NoView
                   /\ \E r \in Reqs :
                         /\ req[r].pc = "submit" /\ req[r].gen = g
                         /\ req'[r].pc = "done"
                         /\ req'[r].submit = "raised"]_vars

C22_Witness ==
    \E r \in Reqs :
        /\ req[r].kind = "web" /\ req[r].submit = "raised"
        /\ Exists(req[r].gen) /\ run[req[r].gen].pc = "none"
        /\ records[req[r].gen].status = "failed"
        /\ records[req[r].gen].error = SubmitErrorText

\* C23 as claimed: a response of the playlist page or of the player page
\* to a request that carried no right PIN shows the data of no generation.
C23_PagesArePinGated ==
    (view.handler \in {"home", "play"} /\ ~view.auth) => view.shown = {}

\* C23 as amended: the playlist page shows the generations exactly to a
\* request that carried the right PIN, and none otherwise; the player page
\* shows the generation of every id that has a record, with the PIN or
\* without it.
C23_PlaylistGatedPlayerPublic ==
    /\ view.handler = "home"
       => view.shown = IF view.auth THEN DOMAIN records ELSE {}
    /\ view.handler = "play"
       => /\ view.code = 200 <=> view.id \in DOMAIN records
          /\ view.shown = IF view.code = 200 THEN {view.id} ELSE {}

C23_Witness ==
    /\ view.handler = "home" /\ ~view.auth /\ view.shown = {}
    /\ \E g \in DOMAIN records : records[g].status = "completed"

\* C24: after a poll that returned FAILED or ERROR (the store being
\* available) the task has ended with that poll and one write, and the
\* record is failed with the backend's error text, or with "Unknown error"
\* when the reply had no error text (the field missing or null).
C24_BackendFailureText ==
    \A g \in Ids :
        LET rn == run[g] IN
        (rn.last \in {"failed_text", "failed_notext"} /\ ~rn.fault)
        => /\ rn.pc = "done"
           /\ rn.writes = 1
           /\ rn.polls = rn.attempt + 1
           /\ Exists(g)
              => /\ records[g].status = "failed"
                 /\ records[g].error =
                       IF rn.last = "failed_text" THEN BackendErrorText
                       ELSE "Unknown error"

\* C25: the step of a poll that returned a status other than COMPLETED,
\* FAILED or ERROR leaves the record table and the bucket as they are,
\* calls no store update and no upload, and the task is at the sleep of
\* the next attempt; only after the 60th attempt the loop is over and what
\* follows is the timeout write, which touches no blob.
C25_PendingPollChangesNothing ==
    [][\A g \in Ids :
          (run[g].pc = "poll" /\ run'[g].pc # "poll"
             /\ run'[g].last = "pending")
          => /\ blobs' = blobs
             /\ run'[g].store = "none"
             /\ run'[g].polls = run[g].polls + 1
             /\ run'[g].attempt = run[g].attempt + 1
             /\ IF run[g].attempt + 1 < max_attempts
                THEN /\ records' = records
                     /\ run'[g].pc = "sleep"
                     /\ run'[g].writes = run[g].writes
                     /\ run'[g].applied = run[g].applied
                ELSE /\ run'[g].pc \in {"done", "escaped"}
                     /\ run'[g].writes = Cap(run[g].writes + 1)
                     /\ \A h \in DOMAIN records' :
                           \/ records'[h] = records[h]
                           \/ h = g /\ records'[h].error = "Generation timed out"]_vars

C25_Witness ==
    \E g \in DOMAIN records :
        /\ run[g].pc = "sleep" /\ run[g].last = "pending"
        /\ run[g].attempt = 30 /\ run[g].polls = 30 /\ run[g].writes = 0
        /\ records[g].status = "processing" /\ blobs = {}

\* C26: a task makes a status query only from the point after a sleep, and
\* reaches that point only by a sleep: it starts at a sleep with no query
\* made, each query is one more than the attempts finished, and after a
\* query the task is not at the query point again without another sleep.
C26_SleepBeforeEveryQuery ==
    [][\A g \in Ids :
          /\ run'[g].polls # run[g].polls
             => /\ run[g].pc = "poll"
                /\ run'[g].polls = run[g].polls + 1
                /\ run'[g].pc # "poll"
          /\ (run'[g].pc = "poll" /\ run[g].pc # "poll")
             => /\ run[g].pc = "sleep"
                /\ run'[g].polls = run[g].polls
                /\ run'[g].attempt = run[g].attempt
                /\ UNCHANGED << records, blobs >>
          /\ (run[g].pc = "none" /\ run'[g].pc # "none")
             => /\ run'[g].pc = "sleep"
                /\ run'[g].polls = 0 /\ run'[g].attempt = 0
          /\ run'[g].pc \in {"sleep", "poll"}
             => run'[g].polls = run'[g].attempt
          /\ run'[g].pc = "download"
             => run'[g].polls = run'[g].attempt + 1]_vars

C26_Witness ==
    \E g \in Ids :
        /\ run[g].pc = "poll" /\ run[g].polls = 0 /\ run[g].attempt = 0

\* C27: with two tasks running for one generation, a terminal write that
\* returns is applied whatever the record's status is: a write made in
\* the query step leaves the record failed, with its storage path and
\* file URL as they were, also when the record was completed before; a
\* completed write (after an upload that returned, no write of the task
\* having raised) leaves it completed with the storage path set, also when
\* the record was failed before.
C27_LastWriteWins ==
    [][\A t \in Tasks :
          LET g == run[t].gen IN
          (run'[t].applied > run[t].applied /\ g \in DOMAIN records)
          => /\ records'[g].status \in {"completed", "failed"}
             /\ records'[g].completed_at = "now"
             /\ run[t].pc = "poll"
                => /\ records'[g].status = "failed"
                   /\ records'[g].storage_path = records[g].storage_path
                   /\ records'[g].file_url = records[g].file_url
             /\ (run[t].pc = "download" /\ ~run'[t].fault
                   /\ run'[t].store \in {"ok", "nosignedurl"})
                => /\ records'[g].status = "completed"
                   /\ records'[g].storage_path = StoragePath(g)
                   /\ records'[g].error = records[g].error]_vars

\* A record that was completed by one task and then marked failed by the
\* other: failed, with the storage path and the file URL of the upload.
C27_Witness ==
    /\ 1 \in DOMAIN records
    /\ records[1].status = "failed"
    /\ records[1].storage_path = StoragePath(1)
    /\ records[1].file_url = SignedUrl14d
    /\ run[1].pc = "done" /\ run[SecondTask].pc = "done"

\* C28: a record's completed_at is set exactly when its status is
\* 'completed' or 'failed'; it is unset in a record just created, and the
\* step that makes a record terminal is the step that sets it.
C28_CompletedAtIffTerminal ==
    /\ [](\A g \in DOMAIN records :
            Set(records[g].completed_at) <=> records[g].status \in Terminal)
    /\ [][\A g \in DOMAIN records' :
            /\ g \notin DOMAIN records => ~Set(records'[g].completed_at)
            /\ (g \in DOMAIN records /\ records[g].status \notin Terminal
                  /\ records'[g].status \in Terminal)
               => /\ ~Set(records[g].completed_at)
                  /\ Set(records'[g].completed_at)]_vars

C28_Witness ==
    \E g \in DOMAIN records :
        /\ records[g].status = "completed"
        /\ records[g].completed_at = "now"
        /\ records[g].created_at = CreatedAt

\* C29: a record keeps its id, text_content, title, description and
\* created_at for as long as it is in the table; the record created for a
\* request holds the stripped input, while the job submitted for it holds
\* the stripped input without its asterisks.
C29_CreationFieldsImmutable ==
    /\ [][\A g \in DOMAIN records \cap DOMAIN records' :
            /\ records'[g].text_content = records[g].text_content
            /\ records'[g].title = records[g].title
            /\ records'[g].description = records[g].description
            /\ records'[g].created_at = records[g].created_at]_vars
    /\ [](\A r \in Reqs :
            (req[r].gen \in DOMAIN records)
            => records[req[r].gen].text_content = strip(req[r].raw))
    /\ [](\A j \in jobs : j.text = clean_text_for_tts(strip(req[j.req].raw)))

C29_Witness ==
    \E r \in Reqs :
        /\ req[r].gen \in DOMAIN records
        /\ records[req[r].gen].status \in Terminal
        /\ \E j \in jobs :
              /\ j.req = r
              /\ j.text # records[req[r].gen].text_content
              /\ records[req[r].gen].text_content # req[r].raw

\* C30: a request whose submission did not raise got a backend job id, and
\* no task was started with the absent job id.
C30_NoRunWithoutJobId ==
    /\ \A r \in Reqs : req[r].submit # "noid"
    /\ \A t \in Tasks : run[t].pc # "none" => run[t].job # NoJob

\* C31: when the download, the upload or the completed write raises after a
\* COMPLETED poll with a download URL, the record is left as it was
\* (processing) and, while attempts remain, the task goes to the sleep of
\* the next attempt without a write having been applied; on the last
\* attempt the task goes on to the timeout write, which, when the store
\* applied it, leaves the record failed with "Generation timed out". A
\* task is in its download step only after a COMPLETED poll with a URL of
\* the same attempt, also after earlier attempts that ended this way.
C31_StorageFailureIsRetried ==
    /\ [][\A g \in Ids :
            (/\ run[g].pc = "download" /\ run'[g] # run[g]
             /\ \/ run'[g].store = "raised"
                \/ run'[g].fault /\ ~run[g].fault
                \/ run'[g].pc = "sleep")
            => /\ run'[g].attempt = run[g].attempt + 1
               /\ run'[g].polls = run[g].polls
               /\ MoreAttempts(run[g])
                  => /\ run'[g].pc = "sleep"
                     /\ run'[g].applied = run[g].applied
                     /\ records' = records
                     /\ Exists(g) => records[g].status = "processing"
               /\ LastAttempt(run[g])
                  => /\ run'[g].polls = max_attempts
                     /\ run'[g].pc \in {"done", "escaped"}
                     /\ run'[g].pc = "escaped" => run'[g].fault
                     /\ (run'[g].pc = "done" /\ Exists(g))
                        => /\ records'[g].status = "failed"
                           /\ records'[g].error = "Generation timed out"]_vars
    /\ [](\A g \in Ids :
            run[g].pc = "download"
            => run[g].last = "completed_url" /\ run[g].polls = run[g].attempt + 1)

C31_Witness ==
    \E g \in DOMAIN records :
        /\ run[g].pc = "done" /\ run[g].polls = max_attempts
        /\ run[g].hist = "mixed" /\ run[g].last = "completed_url"
        /\ run[g].store = "raised"
        /\ records[g].status = "failed"
        /\ records[g].error = "Generation timed out"

C33_OwnStoragePath ==
    /\ [](\A g \in DOMAIN records :
            records[g].status = "completed"
            => records[g].storage_path = StoragePath(g))
    /\ [](\A g \in DOMAIN records, h \in DOMAIN records :
            (g # h /\ records[g].status = "completed"
                   /\ records[h].status = "completed")
            => records[g].storage_path # records[h].storage_path)
    /\ [][blobs' # blobs
          => \/ blobs' \subseteq blobs
             \/ \E t \in Tasks :
                   /\ run[t].pc = "download" /\ run'[t] # run[t]
                   /\ blobs' = blobs \cup {StoragePath(run[t].gen)}]_vars

C33_Witness ==
    /\ 1 \in DOMAIN records
    /\ records[1].status = "completed"
    /\ records[SeedId].status = "completed"
    /\ records[1].storage_path \in blobs
    /\ records[SeedId].storage_path \in blobs \ {records[1].storage_path}

\* C34: a POST /generate or POST /delete/{gen_id} without the right PIN
\* cookie is answered with the redirect (303) in the step that reads the
\* cookie, and that step leaves the record table, the bucket, the
\* submitted jobs, the tasks and every other request as they were.
C34_BadPinChangesNothing ==
    [][/\ \A r \in Reqs :
            (req[r].pc = "idle" /\ req'[r].kind = "web" /\ ~req'[r].auth)
            => /\ req'[r].pc = "done" /\ req'[r].response = 303
               /\ req'[r].gen = 0 /\ req'[r].submit = "none"
               /\ \A q \in Reqs \ {r} : req'[q] = req[q]
               /\ UNCHANGED << records, blobs, nextId, jobs, run >>
       /\ (view'.handler = "web_delete" /\ ~view'.auth)
          => /\ view'.code = 303
             /\ UNCHANGED << records, blobs, nextId, jobs, run, req >>]_vars

C34_Witness ==
    /\ view.handler = "web_delete" /\ ~view.auth
    /\ view.id \in DOMAIN records
    /\ records[view.id].status = "completed"
    /\ records[view.id].storage_path \in blobs
    /\ run[view.id].pc = "done"

\* C35: generate_audio_blocking makes at most ceil(max_wait /
\* poll_interval) status queries, 60 with the defaults as process_tts_job
\* does, each after one sleep; it returns only after a COMPLETED poll with
\* a download URL, and it raises on FAILED or ERROR, on COMPLETED without
\* a URL, on the first poll that raises, and, after the last poll the wait
\* allows, on timeout.
Ceil(a, b) == (a + b - 1) \div b

RECURSIVE Chars(_)
Chars(t) ==
    IF t = <<>> THEN <<>>
    ELSE [i \in 1 .. Head(t).n |-> Head(t).c] \o Chars(Tail(t))

RECURSIVE WithoutAsterisks(_)
WithoutAsterisks(s) ==
    IF s = <<>> THEN <<>>
    ELSE IF Head(s) = "*" THEN WithoutAsterisks(Tail(s))
    ELSE << Head(s) >> \o WithoutAsterisks(Tail(s))

C37_CleanIsIdempotent ==
    /\ [](cleaning.calls >= 1
          => /\ \A i \in 1 .. Len(Chars(cleaning.out)) :
                   Chars(cleaning.out)[i] # "*"
             /\ Chars(cleaning.out) = WithoutAsterisks(Chars(cleaning.text)))
    /\ [][cleaning.calls = 1 => cleaning'.out = cleaning.out]_vars

C37_Witness ==
    /\ cleaning.calls = 2
    /\ Len(cleaning.text) = 3
    /\ cleaning.text[1].c = "*" /\ cleaning.text[2].c = "a"
    /\ cleaning.text[3] = Run("*", 2)
    /\ cleaning.out = << cleaning.text[2] >>

\* C36: whatever the summarisation call did, the handler goes on to
\* create_generation, and when the insert returns a row the request has its
\* record: with the request's title unchanged when api_generate was given
\* one, and, when the summarisation call raised, with the fallback
\* description and (no title given) the fallback title, which are the text
\* and the first line of the text, cut to 150 and 60 characters.
C36_SummaryFailureFallsBack ==
    [][\A r \in Reqs :
          (req[r].pc = "title" /\ req'[r].pc # "title")
          => LET text == strip(req[r].raw)
                 fb == fallback_title_description(text) IN
             /\ req'[r].insert # "none"
             /\ req'[r].insert = "row"
                => /\ req'[r].pc = "submit"
                   /\ req'[r].gen \in DOMAIN records'
                   /\ LET rec == records'[req'[r].gen] IN
                      /\ Titled(req[r]) => rec.title = req[r].title.text
                      /\ Len_(rec.description) <= 150
                      /\ ~Titled(req[r]) => Len_(rec.title) <= 60
                      /\ ~req'[r].groq.ok
                         => /\ rec.description = fb.description
                            /\ ~Titled(req[r]) => rec.title = fb.title
                            /\ Len_(text) <= 150 => rec.description = text
                            /\ (~Titled(req[r]) /\ FirstLine(text) = text
                                  /\ Len_(text) <= 60)
                               => rec.title = text]_vars

C36_Witness ==
    \E r \in Reqs :
        /\ req[r].pc = "done" /\ req[r].kind = "api" /\ req[r].submit = "id"
        /\ ~req[r].groq.ok /\ ~req[r].title.given
        /\ req[r].gen \in DOMAIN records
        /\ Len_(req[r].raw) > 150
        /\ records[req[r].gen].title = << Run("a", 2) >>
        /\ Len_(records[req[r].gen].description) = 150

====
